---- MODULE Spec2Model ----
(***************************************************************************)
(* CourseWatcher: video discovery (scan), the progress/status state        *)
(* machine and the notes store, over the three tables of the embedded      *)
(* database.                                                               *)
(*                                                                         *)
(* File and directory names are sequences of one-character strings, so     *)
(* that the filename heuristics (extension, leading digits, underscores)   *)
(* are computed as the code computes them.  A path is the sequence of      *)
(* names from the course root down to the file.                            *)
(***************************************************************************)
EXTENDS Integers, Sequences, FiniteSets, TLC

VARIABLES
    fs,          \* the files present under the course root (set of paths)
    unreadable,  \* directories whose readdirSync throws (permission errors)
    videos,      \* rows of table videos
    modules,     \* rows of table modules
    notes,       \* rows of table notes
    last,        \* the last operation: its arguments and its outcome
    calls,       \* number of progress/notes calls made so far
    fsChanges,   \* number of changes made to the directory tree so far
    proc,        \* the server process: its startup, its port, its shutdown
    client       \* the player page of one video in a browser

vars == <<fs, unreadable, videos, modules, notes, last, calls, fsChanges,
          proc, client>>

----------------------------------------------------------------------------
(* Bounds of the exploration *)

MaxCalls == 1

MaxFsChanges == 2

MaxSockets == 1

MaxSignals == 2

MaxEnded == 2

----------------------------------------------------------------------------
(* Program constants *)

\* _extractSortOrder: the sort key of a name without leading digits
DefaultSortOrder == 999

\* cli: the port when --port is absent
DefaultPort == 3000

\* AUTOPLAY_COUNTDOWN: seconds before auto-navigating to the next video
AUTOPLAY_COUNTDOWN == 5

\* config.completionThreshold = 0.9, as a percentage
CompletionThresholdPercent == 90

\* SQL NULL in the integer column videos.module_id (row ids start at 1)
Null == 0

\* config.videoExtensions
videoExtensions ==
    { <<".", "m", "p", "4">>, <<".", "w", "e", "b", "m">>,
      <<".", "o", "g", "v">>, <<".", "o", "g", "g">> }

\* config.dbFolder, the reserved folder the walk skips
dbFolder ==
    <<".", "c", "o", "u", "r", "s", "e", "w", "a", "t", "c", "h", "e", "r">>

\* the module name _findVideoFiles gives to files directly under the root
RootName == <<"R", "o", "o", "t">>

validStatuses == {"unwatched", "in-progress", "completed"}

----------------------------------------------------------------------------
(* The directory trees explored *)

N_01a  == <<"0", "1", "_", "a", ".", "m", "p", "4">>      \* 01_a.mp4
N_bMP4 == <<"b", ".", "M", "P", "4">>                      \* b.MP4
N_2ogg == <<"2", ".", "o", "g", "g">>                      \* 2.ogg
N_txt  == <<"n", ".", "t", "x", "t">>                      \* n.txt
N_x    == <<"x", ".", "m", "p", "4">>                      \* x.mp4
N_M1   == <<"M", "1">>                                     \* directory M1
N_s    == <<"s">>                                          \* directory s
N_10   == <<"1", "0">>                                     \* directory 10
N_K    == <<"K">>                                          \* directory K
N_1000 == <<"1", "0", "0", "0", ".", "m", "p", "4">>      \* 1000.mp4

\* Files that come and go between scans
CandidateFiles ==
    { <<N_01a>>, <<N_bMP4>>, <<N_M1, N_01a>>, <<N_M1, N_s, N_2ogg>> }

\* Files that are always there: a text file, and a video inside the
\* reserved data folder
FixedFiles == { <<N_txt>>, <<dbFolder, N_x>> }

\* The course the library queries are explored on: three videos under the
\* root once 01_a.mp4 arrives, and three module directories whose order by
\* sort key, by name and by row id differ
LibraryStart ==
    { <<N_bMP4>>, <<N_x>>, <<N_M1, N_01a>>, <<N_M1, N_s, N_2ogg>>,
      <<N_10, N_2ogg>>, <<N_K, N_bMP4>> }

\* A course with a file numbered 1000 next to a file without number
SortKeyStart == { <<N_1000>>, <<N_bMP4>>, <<N_M1, N_01a>> }

\* Directories that may become unreadable
CandidateDirs == { <<N_M1>>, <<N_M1, N_s>> }

\* The order in which a directory listing returns names (or its reverse)
NameOrder ==
    <<dbFolder, N_01a, N_2ogg, N_M1, N_K, N_bMP4, N_txt, N_s, N_x, N_10,
      N_1000>>

----------------------------------------------------------------------------
(* Filename heuristics: path.extname, toLowerCase, _extractTitle,
   _extractSortOrder *)

UpperCase == <<"A", "B", "C", "D", "E", "F", "G", "H", "I", "J", "K", "L", "M",
               "N", "O", "P", "Q", "R", "S", "T", "U", "V", "W", "X", "Y", "Z">>

LowerCase == <<"a", "b", "c", "d", "e", "f", "g", "h", "i", "j", "k", "l", "m",
               "n", "o", "p", "q", "r", "s", "t", "u", "v", "w", "x", "y", "z">>

Digits == <<"0", "1", "2", "3", "4", "5", "6", "7", "8", "9">>

\* String.prototype.toLowerCase, one character
LowerChar(c) ==
    IF \E i \in 1..Len(UpperCase) : UpperCase[i] = c
    THEN LowerCase[CHOOSE i \in 1..Len(UpperCase) : UpperCase[i] = c]
    ELSE c

toLowerCase(s) == [i \in 1..Len(s) |-> LowerChar(s[i])]

\* Index of the last "." of a name, 0 when there is none
LastDot(s) ==
    IF \E i \in 1..Len(s) : s[i] = "."
    THEN CHOOSE i \in 1..Len(s) :
            s[i] = "." /\ \A j \in (i + 1)..Len(s) : s[j] # "."
    ELSE 0

\* path.extname: from the last "." on; empty when the name has no "." or
\* only a leading one
extname(s) == IF LastDot(s) <= 1 THEN <<>> ELSE SubSeq(s, LastDot(s), Len(s))

IsDigit(c) == \E i \in 1..Len(Digits) : Digits[i] = c

DigitValue(c) == (CHOOSE i \in 1..Len(Digits) : Digits[i] = c) - 1

\* Length of the leading run of digits, the match of /^(\d+)/
LeadingDigits(s) ==
    IF \E i \in 1..Len(s) : ~IsDigit(s[i])
    THEN (CHOOSE i \in 1..Len(s) :
            ~IsDigit(s[i]) /\ \A j \in 1..(i - 1) : IsDigit(s[j])) - 1
    ELSE Len(s)

RECURSIVE parseInt(_, _)
\* parseInt(digits, 10) of the first n characters of s
parseInt(s, n) ==
    IF n = 0 THEN 0 ELSE 10 * parseInt(s, n - 1) + DigitValue(s[n])

_extractSortOrder(filename) ==
    IF LeadingDigits(filename) > 0
    THEN parseInt(filename, LeadingDigits(filename))
    ELSE DefaultSortOrder

\* String.prototype.trim, for the blank character
RECURSIVE trim(_)
trim(s) ==
    IF s = <<>> THEN s
    ELSE IF Head(s) = " " THEN trim(Tail(s))
    ELSE IF s[Len(s)] = " " THEN trim(SubSeq(s, 1, Len(s) - 1))
    ELSE s

_extractTitle(filename) ==
    LET base     == SubSeq(filename, 1, Len(filename) - Len(extname(filename)))
        replaced == [i \in 1..Len(base) |-> IF base[i] = "_" THEN " " ELSE base[i]]
    IN  IF trim(replaced) # <<>> THEN trim(replaced) ELSE filename

----------------------------------------------------------------------------
(* The recursive walk of the course directory *)

IsPrefix(d, p) == Len(d) <= Len(p) /\ SubSeq(p, 1, Len(d)) = d

\* Names of the entries of directory dir
EntryNames(dir) == { p[Len(dir) + 1] : p \in { q \in fs : IsPrefix(dir, q) /\ Len(q) > Len(dir) } }

\* fs.readdirSync(dir): the entries in listing order, or in reverse
readdirSync(dir, rev) ==
    LET present == SelectSeq(NameOrder, LAMBDA n : n \in EntryNames(dir))
    IN  IF rev THEN [i \in 1..Len(present) |-> present[Len(present) + 1 - i]]
        ELSE present

RECURSIVE InsertSorted(_, _)
\* Insert v after every element whose sortOrder is not greater (stable)
InsertSorted(sorted, v) ==
    IF sorted = <<>> THEN <<v>>
    ELSE IF Head(sorted).sortOrder <= v.sortOrder
         THEN <<Head(sorted)>> \o InsertSorted(Tail(sorted), v)
         ELSE <<v>> \o sorted

RECURSIVE SortBySortOrder(_)
\* videos.sort((a, b) => a.sortOrder - b.sortOrder), a stable sort
SortBySortOrder(list) ==
    IF list = <<>> THEN <<>>
    ELSE InsertSorted(SortBySortOrder(SubSeq(list, 1, Len(list) - 1)),
                      list[Len(list)])

\* The video info object built for one file
VideoInfo(fullPath) ==
    LET name == fullPath[Len(fullPath)]
    IN  [ path       |-> fullPath,
          filename   |-> name,
          title      |-> _extractTitle(name),
          moduleName |-> IF Len(fullPath) > 1 THEN fullPath[1] ELSE RootName,
          modulePath |-> IF Len(fullPath) > 1 THEN <<fullPath[1]>> ELSE <<>>,
          sortOrder  |-> _extractSortOrder(name) ]

\* Whether the walk takes the file for a video: its extension, lower-cased,
\* is one of config.videoExtensions
HasVideoExtension(name) == toLowerCase(extname(name)) \in videoExtensions

\* The two above, tabulated over the files of the explored trees
FileTable ==
    [ p \in CandidateFiles \cup FixedFiles \cup LibraryStart \cup SortKeyStart |->
        [ isVideo |-> HasVideoExtension(p[Len(p)]), info |-> VideoInfo(p) ] ]

\* IsSkipped with the test for the reserved folder left out
IsSkippedNever(name) == FALSE

\* if (entry.name === '.coursewatcher') continue
IsSkipped(name) == name = dbFolder

RECURSIVE _findVideoFiles(_, _)
RECURSIVE WalkEntries(_, _, _, _)
\* The loop over the entries of dir, from entry i on
WalkEntries(dir, entries, i, rev) ==
    IF i > Len(entries) THEN <<>>
    ELSE LET name     == entries[i]
             fullPath == Append(dir, name)
             here ==
                 IF IsSkipped(name) THEN <<>>
                 ELSE IF fullPath \notin fs
                      THEN _findVideoFiles(fullPath, rev)
                      ELSE IF FileTable[fullPath].isVideo
                           THEN <<FileTable[fullPath].info>>
                           ELSE <<>>
         IN  here \o WalkEntries(dir, entries, i + 1, rev)

\* _findVideoFiles with one try/catch around the whole walk: a directory
\* that cannot be read ends it without a result
_findVideoFilesAborts(dir, rev) ==
    IF unreadable # {} THEN <<>>
    ELSE SortBySortOrder(WalkEntries(dir, readdirSync(dir, rev), 1, rev))

_findVideoFiles(dir, rev) ==
    IF dir \in unreadable THEN <<>>
    ELSE SortBySortOrder(WalkEntries(dir, readdirSync(dir, rev), 1, rev))

----------------------------------------------------------------------------
(* The database: rows, lookups, constraints, transactions *)

\* AUTOINCREMENT: the next row id of a table
NextId(rows) ==
    IF rows = {} THEN 1
    ELSE (CHOOSE r \in rows : \A q \in rows : q.id <= r.id).id + 1

\* SelectByPath with a predicate that matches no stored path (the path
\* bound in another normal form than the one stored)
SelectByPathNoMatch(rows, path) == {}

\* The rows a "WHERE path = ?" predicate selects; the UNIQUE index on path
\* evaluates the same predicate
SelectByPath(rows, path) == { r \in rows : r.path = path }

\* db.get('SELECT * FROM videos WHERE id = ?')
SelectById(rows, id) == { r \in rows : r.id = id }

\* CURRENT_TIMESTAMP of a scan: the rows one scan inserts share it, and it
\* is later than that of every row an earlier scan inserted
Now(rows) ==
    IF rows = {} THEN 1
    ELSE (CHOOSE r \in rows : \A q \in rows : q.created_at <= r.created_at)
            .created_at + 1

\* The row INSERT INTO videos (path, filename, title, module_id, sort_order)
\* creates, the other columns taking the defaults of the schema
NewVideoRow(id, video, moduleId, now) ==
    [ id         |-> id,
      path       |-> video.path,
      filename   |-> video.filename,
      title      |-> video.title,
      duration   |-> 0,
      position   |-> 0,
      status     |-> "unwatched",
      module_id  |-> moduleId,
      sort_order |-> video.sortOrder,
      created_at |-> now ]

\* UpdateTitle as a replacement of the row (INSERT OR REPLACE): the other
\* columns fall back to their defaults
UpdateTitleReplacesRow(row, title) ==
    [row EXCEPT !.title = title, !.duration = 0, !.position = 0,
                !.status = "unwatched"]

\* UPDATE videos SET title = ? WHERE id = ?
UpdateTitle(row, title) == [row EXCEPT !.title = title]

\* _getOrCreateModule: the modules table afterwards and the module id
_getOrCreateModule(mods, modulePath, moduleName) ==
    IF moduleName = RootName THEN [modules |-> mods, id |-> Null]
    ELSE IF SelectByPath(mods, modulePath) # {}
         THEN [modules |-> mods,
               id |-> (CHOOSE m \in SelectByPath(mods, modulePath) : TRUE).id]
         ELSE [modules |-> mods \cup
                   { [ id         |-> NextId(mods),
                       name       |-> moduleName,
                       path       |-> modulePath,
                       sort_order |-> _extractSortOrder(moduleName) ] },
               id |-> NextId(mods)]

\* UpdateExisting counting the row as added instead of as updated
UpdateExistingCountsAdded(st, video) ==
    LET existing == CHOOSE r \in SelectByPath(st.videos, video.path) : TRUE
    IN  [st EXCEPT
            !.videos = { IF r.id = existing.id THEN UpdateTitle(r, video.title)
                         ELSE r : r \in st.videos },
            !.added  = st.added + 1]

\* The branch of the scan loop for a path that has a row: update its title
UpdateExisting(st, video) ==
    LET existing == CHOOSE r \in SelectByPath(st.videos, video.path) : TRUE
    IN  [st EXCEPT
            !.videos  = { IF r.id = existing.id THEN UpdateTitle(r, video.title)
                          ELSE r : r \in st.videos },
            !.updated = st.updated + 1]

\* The branch of the scan loop for a path that has no row: resolve the
\* module, insert the video; the insert fails on the UNIQUE index
InsertNew(st, video) ==
    LET m == _getOrCreateModule(st.modules, video.modulePath, video.moduleName)
    IN  IF SelectByPath(st.videos, video.path) # {}
        THEN [st EXCEPT !.modules = m.modules, !.failed = TRUE]
        ELSE [st EXCEPT
                !.modules = m.modules,
                !.videos  = st.videos \cup
                              {NewVideoRow(NextId(st.videos), video, m.id,
                                           st.now)},
                !.added   = st.added + 1]

\* One iteration of the scan loop; fail: the storage engine rejects the
\* write of this iteration
ReconcileOne(st, video, fail) ==
    IF SelectByPath(st.videos, video.path) # {}
    THEN IF fail THEN [st EXCEPT !.failed = TRUE] ELSE UpdateExisting(st, video)
    ELSE IF fail
         THEN [st EXCEPT
                 !.modules = _getOrCreateModule(st.modules, video.modulePath,
                                                video.moduleName).modules,
                 !.failed  = TRUE]
         ELSE InsertNew(st, video)

RECURSIVE Reconcile(_, _, _, _)
\* The scan loop from the i-th discovered file on; it stops at a failure
Reconcile(list, i, st, failAt) ==
    IF i > Len(list) \/ st.failed THEN st
    ELSE Reconcile(list, i + 1, ReconcileOne(st, list[i], i = failAt), failAt)

\* transaction without the rollback: fn called outside a transaction
transactionNoRollback(before, after) == after

\* db.transaction(fn)(): commit what fn did, or roll back when it threw
transaction(before, after) ==
    IF after.failed
    THEN [after EXCEPT !.videos = before.videos, !.modules = before.modules]
    ELSE after

----------------------------------------------------------------------------
(* Progress service *)

\* The status updatePosition derives
NewStatus(video, position, duration) ==
    LET videoDuration == IF duration # <<>> /\ duration[1] # 0
                         THEN duration[1] ELSE video.duration
    IN  IF videoDuration > 0
        THEN IF position * 100 >= CompletionThresholdPercent * videoDuration
             THEN "completed"
             ELSE IF position > 0 THEN "in-progress" ELSE video.status
        ELSE IF position > 0 /\ video.status = "unwatched"
             THEN "in-progress" ELSE video.status

\* COALESCE(?, duration)
Coalesce(duration, stored) == IF duration # <<>> THEN duration[1] ELSE stored

\* The row UPDATE videos SET position, duration, status leaves
PositionUpdated(video, position, duration) ==
    [video EXCEPT !.position = position,
                  !.duration = Coalesce(duration, video.duration),
                  !.status   = NewStatus(video, position, duration)]

\* StatusUpdated without the reset of the position for 'unwatched'
StatusUpdatedKeepsPosition(video, status) == [video EXCEPT !.status = status]

\* StatusUpdated with the position reset whatever the status
StatusUpdatedResetsPosition(video, status) ==
    [video EXCEPT !.status = status, !.position = 0]

\* The row UPDATE videos SET status, position leaves
StatusUpdated(video, status) ==
    [video EXCEPT !.status   = status,
                  !.position = IF status = "unwatched" THEN 0 ELSE video.position]

----------------------------------------------------------------------------
(* Inputs of the calls *)

\* position as the request body carries it: a JSON number or something else
PositionArgs ==
    { [type |-> "number", val |-> v] : v \in {-1, 0, 1, 9, 10} }
        \cup { [type |-> "string", val |-> 9] }

\* duration: omitted (the default null) or a JSON number
DurationArgs == { <<>>, <<0>>, <<-1>>, <<10>> }

StatusArgs == validStatuses \cup {"invalid"}

ContentArgs == {"", "note", "todo"}

\* the ids of the rows, and one id no row has
VideoIdArgs == 1..NextId(videos)

----------------------------------------------------------------------------
(* State *)

\* The record of an operation, before its outcome is filled in; again
\* marks a scan that directly follows a successful scan, or a save of notes
\* that directly follows a save of the same notes; video is the row a
\* progress call returns, result what a query or a notes call returns
NoOp ==
    [ op       |-> "init",
      ok       |-> TRUE,
      err      |-> "",
      total    |-> 0,
      added    |-> 0,
      existing |-> 0,
      again    |-> FALSE,
      video    |-> {},
      result   |-> {} ]

\* What the command line gives startServer: port is the --port option
\* (empty when absent; parseInt of it otherwise), busy the ports other
\* programs listen on
Launched(portOption, busy) ==
    LET isPortSpecified == portOption # <<>>
    IN  [ phase          |-> "cli",
          port           |-> IF isPortSpecified THEN portOption[1]
                                                ELSE DefaultPort,
          allowFallback  |-> ~isPortSpecified,
          busy           |-> busy,
          listening      |-> {},      \* the port the server listens on
          dbOpen         |-> FALSE,   \* database._db is not null
          sockets        |-> 0,       \* size of the set of active sockets
          isShuttingDown |-> FALSE,
          forceExitTimeout |-> FALSE, \* the 5 s timer is armed
          closing        |-> FALSE,   \* server.close() was called
          bodyRuns       |-> 0,       \* executions of the body of shutdown
          signals        |-> 0,       \* signals received so far
          by             |-> "",      \* what made the process exit
          exit           |-> <<>> ]   \* the exit code, once exited

\* A process that listens on the default port; the specifications of the
\* services leave the life cycle of the process out
Serving ==
    [ Launched(<<>>, {}) EXCEPT !.phase = "listening", !.dbOpen = TRUE,
                                !.listening = {DefaultPort} ]

\* No player page is open
NoPage ==
    [ videoId           |-> Null,
      duration          |-> 0,       \* player.duration
      currentTime       |-> 0,       \* player.currentTime
      ended             |-> FALSE,   \* playback is at its end
      lastSavedPosition |-> 0,
      saveTimeout       |-> FALSE,   \* the autosave timer is scheduled
      requests          |-> {},      \* requests sent and not yet served
      staleAtEnd        |-> FALSE,   \* requests were pending at the end
      nextVideoUrl      |-> FALSE,   \* the page has a next video
      autoplayCountdown |-> AUTOPLAY_COUNTDOWN,
      autoplayInterval  |-> Null,    \* the handle the page remembers
      intervals         |-> {},      \* the intervals that are running
      started           |-> 0,       \* number of intervals started
      ticks             |-> 0,       \* ticks since the last 'ended'
      hidden            |-> TRUE,    \* the overlay is hidden
      cancelledUpTo     |-> 0,       \* intervals started before a cancel
      navigatedBy       |-> <<>> ]   \* what left the page: interval, 0 skip

\* A step of a service, which is no step of the process or of the page
Detached == UNCHANGED <<proc, client>>

\* The trees a course starts from: an empty one, and one with every file
InitialTrees == { {}, CandidateFiles }

\* The store right after initialize(), on one of the initial trees
Init ==
    /\ fs \in { FixedFiles \cup present : present \in InitialTrees }
    /\ unreadable = {}
    /\ videos = {}
    /\ modules = {}
    /\ notes = {}
    /\ last = NoOp
    /\ calls = 0
    /\ fsChanges = 0
    /\ proc = Serving
    /\ client = NoPage

----------------------------------------------------------------------------
(* The directory tree changes between scans *)

AddFile ==
    /\ \E p \in CandidateFiles \ fs : fs' = fs \cup {p}
    /\ last' = [NoOp EXCEPT !.op = "fs"]
    /\ UNCHANGED <<unreadable, videos, modules, notes, calls, proc, client>>

RemoveFile ==
    /\ \E p \in CandidateFiles \cap fs : fs' = fs \ {p}
    /\ last' = [NoOp EXCEPT !.op = "fs"]
    /\ UNCHANGED <<unreadable, videos, modules, notes, calls, proc, client>>

DenyDirectory ==
    /\ \E d \in CandidateDirs \ unreadable : unreadable' = unreadable \cup {d}
    /\ last' = [NoOp EXCEPT !.op = "fs"]
    /\ UNCHANGED <<fs, videos, modules, notes, calls, proc, client>>

AllowDirectory ==
    /\ \E d \in unreadable : unreadable' = unreadable \ {d}
    /\ last' = [NoOp EXCEPT !.op = "fs"]
    /\ UNCHANGED <<fs, videos, modules, notes, calls, proc, client>>

----------------------------------------------------------------------------
(* VideoService.scanVideos *)

\* The reconciliation of the discovered files; failAt is the iteration
\* whose write the storage engine rejects (0: none)
ScanCall(found, failAt) ==
    LET before == [videos |-> videos, modules |-> modules, now |-> Now(videos),
                   added |-> 0, updated |-> 0, failed |-> FALSE]
        after  == transaction(before, Reconcile(found, 1, before, failAt))
    IN  /\ videos' = after.videos
        /\ modules' = after.modules
        /\ last' = IF after.failed
                   THEN [NoOp EXCEPT !.op = "scan", !.ok = FALSE,
                                     !.err = "SqliteError"]
                   ELSE [NoOp EXCEPT !.op = "scan",
                                     !.again = (last.op = "scan" /\ last.ok),
                                     !.total = Len(found),
                                     !.added = after.added,
                                     !.existing = after.updated]
        /\ UNCHANGED <<fs, unreadable, notes, calls, fsChanges>>

\* rev: the order in which the directories list their entries
scanVideos ==
    \E rev \in BOOLEAN :
        LET found == _findVideoFiles(<<>>, rev)
        IN  \E failAt \in 0..Len(found) : ScanCall(found, failAt)

----------------------------------------------------------------------------
(* ProgressService.updatePosition and updateStatus *)

\* IsValidPosition without the test for a negative number
IsValidPositionTypeOnly(position) == position.type = "number"

\* IsValidPosition accepting every value
IsValidPositionAny(position) == TRUE

\* The negation of: typeof position !== 'number' || position < 0
IsValidPosition(position) == position.type = "number" /\ position.val >= 0

\* IsValidStatus accepting every string
IsValidStatusAny(status) == TRUE

\* validStatuses.includes(status)
IsValidStatus(status) == status \in validStatuses

\* The HTTP status the error middleware answers with: err.statusCode || 500
statusCode(err) ==
    CASE err = "ValidationError" -> 400
      [] err = "NotFoundError"   -> 404
      [] OTHER                   -> 500

UpdatePositionCall(videoId, position, duration) ==
    /\ IF ~IsValidPosition(position)
       THEN /\ last' = [NoOp EXCEPT !.op = "updatePosition", !.ok = FALSE,
                                    !.err = "ValidationError"]
            /\ UNCHANGED videos
       ELSE IF SelectById(videos, videoId) = {}
       THEN /\ last' = [NoOp EXCEPT !.op = "updatePosition", !.ok = FALSE,
                                    !.err = "NotFoundError"]
            /\ UNCHANGED videos
       ELSE LET video   == CHOOSE r \in SelectById(videos, videoId) : TRUE
                updated == PositionUpdated(video, position.val, duration)
            IN  /\ videos' = (videos \ {video}) \cup {updated}
                /\ last' = [NoOp EXCEPT !.op = "updatePosition",
                                        !.video = {updated}]
    /\ UNCHANGED <<fs, unreadable, modules, notes, fsChanges>>

\* A call with arguments drawn from the given sets
updatePositionWith(positions, durations) ==
    \E videoId \in VideoIdArgs, position \in positions, duration \in durations :
        UpdatePositionCall(videoId, position, duration)

updatePosition == updatePositionWith(PositionArgs, DurationArgs)

UpdateStatusCall(videoId, status) ==
    /\ IF ~IsValidStatus(status)
       THEN /\ last' = [NoOp EXCEPT !.op = "updateStatus", !.ok = FALSE,
                                    !.err = "ValidationError"]
            /\ UNCHANGED videos
       ELSE IF SelectById(videos, videoId) = {}
       THEN /\ last' = [NoOp EXCEPT !.op = "updateStatus", !.ok = FALSE,
                                    !.err = "NotFoundError"]
            /\ UNCHANGED videos
       ELSE LET video   == CHOOSE r \in SelectById(videos, videoId) : TRUE
                updated == StatusUpdated(video, status)
            IN  /\ videos' = (videos \ {video}) \cup {updated}
                /\ last' = [NoOp EXCEPT !.op = "updateStatus",
                                        !.video = {updated}]
    /\ UNCHANGED <<fs, unreadable, modules, notes, fsChanges>>

updateStatusWith(statuses) ==
    \E videoId \in VideoIdArgs, status \in statuses :
        UpdateStatusCall(videoId, status)

updateStatus == updateStatusWith(StatusArgs)

----------------------------------------------------------------------------
(* NotesService.saveNotes and deleteNotes *)

\* db.get('SELECT * FROM notes WHERE video_id = ?')
SelectNotes(rows, videoId) == { n \in rows : n.video_id = videoId }

\* NotesOf without the synthesized record: the row, or nothing
NotesOfRowOnly(rows, videoId) ==
    IF SelectNotes(rows, videoId) = {} THEN {}
    ELSE { CHOOSE n \in SelectNotes(rows, videoId) : TRUE }

\* notes || { video_id: videoId, content: '' }: what getNotes returns
NotesOf(rows, videoId) ==
    IF SelectNotes(rows, videoId) = {}
    THEN { [video_id |-> videoId, content |-> ""] }
    ELSE { CHOOSE n \in SelectNotes(rows, videoId) : TRUE }

\* Upsert as a plain INSERT, on a table without the UNIQUE index
UpsertInsertsAgain(rows, videoId, content) ==
    rows \cup { [video_id |-> videoId, content |-> content] }

\* INSERT INTO notes ... ON CONFLICT(video_id) DO UPDATE SET content
Upsert(rows, videoId, content) ==
    IF SelectNotes(rows, videoId) = {}
    THEN rows \cup { [video_id |-> videoId, content |-> content] }
    ELSE { IF n.video_id = videoId THEN [n EXCEPT !.content = content] ELSE n :
           n \in rows }

GetNotesCall(videoId) ==
    /\ last' = IF SelectById(videos, videoId) = {}
               THEN [NoOp EXCEPT !.op = "getNotes", !.ok = FALSE,
                                 !.err = "NotFoundError"]
               ELSE [NoOp EXCEPT !.op = "getNotes",
                                 !.result = NotesOf(notes, videoId)]
    /\ UNCHANGED <<fs, unreadable, videos, modules, notes, fsChanges, proc, client>>

getNotes == \E videoId \in VideoIdArgs : GetNotesCall(videoId)

SaveNotesCall(videoId, content) ==
    /\ IF SelectById(videos, videoId) = {}
       THEN /\ last' = [NoOp EXCEPT !.op = "saveNotes", !.ok = FALSE,
                                    !.err = "NotFoundError"]
            /\ UNCHANGED notes
       ELSE /\ notes' = Upsert(notes, videoId, content)
            /\ last' = [NoOp EXCEPT
                          !.op = "saveNotes",
                          !.again = (/\ last.op = "saveNotes" /\ last.ok
                                     /\ last.result = { [video_id |-> videoId,
                                                         content |-> content] }),
                          !.result = NotesOf(notes', videoId)]
    /\ UNCHANGED <<fs, unreadable, videos, modules, fsChanges, proc, client>>

saveNotesWith(contents) ==
    \E videoId \in VideoIdArgs, content \in contents :
        SaveNotesCall(videoId, content)

saveNotes == saveNotesWith(ContentArgs)

\* It returns whether a row was deleted
DeleteNotesCall(videoId) ==
    /\ notes' = notes \ SelectNotes(notes, videoId)
    /\ last' = [NoOp EXCEPT !.op = "deleteNotes",
                            !.result = { [deleted |-> notes' # notes] }]
    /\ UNCHANGED <<fs, unreadable, videos, modules, fsChanges, proc, client>>

deleteNotes == \E videoId \in VideoIdArgs : DeleteNotesCall(videoId)

----------------------------------------------------------------------------
(* VideoService queries: getAllModulesWithVideos, getAdjacentVideos,
   searchVideos, getStats *)

\* The characters of the names, in the order of their codes: the BINARY
\* collation of the text columns
Collation == <<" ", "%", ".">> \o Digits \o UpperCase \o <<"_">> \o LowerCase

CharCode(c) == CHOOSE i \in 1..Len(Collation) : Collation[i] = c

RECURSIVE StrLE(_, _)
\* a <= b for two strings under the BINARY collation
StrLE(a, b) ==
    IF a = <<>> THEN TRUE
    ELSE IF b = <<>> THEN FALSE
    ELSE IF Head(a) = Head(b) THEN StrLE(Tail(a), Tail(b))
    ELSE CharCode(Head(a)) < CharCode(Head(b))

\* OrderClause with 'name_desc' taken for the default
OrderClauseNoDesc(sortBy) ==
    CASE sortBy = "date"      -> "created_at ASC"
      [] sortBy = "date_desc" -> "created_at DESC"
      [] OTHER                -> "sort_order, filename"

\* The switch on sortBy: the ORDER BY clause of the video queries
OrderClause(sortBy) ==
    CASE sortBy = "name_desc" -> "sort_order DESC, filename DESC"
      [] sortBy = "date"      -> "created_at ASC"
      [] sortBy = "date_desc" -> "created_at DESC"
      [] OTHER                -> "sort_order, filename"

\* Whether row a may come before row b under an ORDER BY clause
RowLE(clause, a, b) ==
    CASE clause = "sort_order, filename" ->
            \/ a.sort_order < b.sort_order
            \/ a.sort_order = b.sort_order /\ StrLE(a.filename, b.filename)
      [] clause = "sort_order DESC, filename DESC" ->
            \/ b.sort_order < a.sort_order
            \/ a.sort_order = b.sort_order /\ StrLE(b.filename, a.filename)
      [] clause = "created_at ASC"  -> a.created_at <= b.created_at
      [] clause = "created_at DESC" -> b.created_at <= a.created_at
      [] clause = "sort_order, name" ->
            \/ a.sort_order < b.sort_order
            \/ a.sort_order = b.sort_order /\ StrLE(a.name, b.name)

\* SeqOfRows cut after its first row (a query with LIMIT 1)
SeqOfRowsFirstOnly(rows, rev) ==
    IF rows = {} THEN <<>>
    ELSE << CHOOSE x \in rows : \A y \in rows : x.id <= y.id >>

RECURSIVE SeqOfRows(_, _)
\* The rows a query selects, in the order the engine visits them: by row
\* id, ascending or descending (the order of equal keys is unspecified)
SeqOfRows(rows, rev) ==
    IF rows = {} THEN <<>>
    ELSE LET r == CHOOSE x \in rows :
                    \A y \in rows : IF rev THEN y.id <= x.id ELSE x.id <= y.id
         IN  <<r>> \o SeqOfRows(rows \ {r}, rev)

RECURSIVE InsertOrdered(_, _, _)
InsertOrdered(sorted, r, clause) ==
    IF sorted = <<>> THEN <<r>>
    ELSE IF RowLE(clause, Head(sorted), r)
         THEN <<Head(sorted)>> \o InsertOrdered(Tail(sorted), r, clause)
         ELSE <<r>> \o sorted

RECURSIVE OrderBy(_, _)
\* The rows of list sorted by an ORDER BY clause
OrderBy(list, clause) ==
    IF list = <<>> THEN <<>>
    ELSE InsertOrdered(OrderBy(SubSeq(list, 1, Len(list) - 1), clause),
                       list[Len(list)], clause)

\* db.all(SELECT ... ORDER BY clause) over the rows selected
SelectOrdered(rows, clause, rev) == OrderBy(SeqOfRows(rows, rev), clause)

\* The name of the pseudo-module of the videos without a module
VideosName == <<"V", "i", "d", "e", "o", "s">>

\* The ids of a sequence of rows
Ids(list) == [i \in 1..Len(list) |-> list[i].id]

\* The list getAllModulesWithVideos builds: the pseudo-module when it has
\* videos, then each module with its videos
ModulesWithVideos(sortBy, rev) ==
    LET mods       == SelectOrdered(modules, "sort_order, name", rev)
        clause     == OrderClause(sortBy)
        rootVideos == SelectOrdered({ v \in videos : v.module_id = Null },
                                    clause, rev)
        root       == IF Len(rootVideos) > 0
                      THEN << [id |-> Null, name |-> VideosName,
                               videos |-> Ids(rootVideos)] >>
                      ELSE <<>>
    IN  root \o
        [ i \in 1..Len(mods) |->
            [ id     |-> mods[i].id,
              name   |-> mods[i].name,
              videos |-> Ids(SelectOrdered(
                             { v \in videos : v.module_id = mods[i].id },
                             clause, rev)) ] ]

GetAllModulesWithVideosCall(sortBy, rev) ==
    /\ last' = [NoOp EXCEPT !.op = "getAllModulesWithVideos",
                            !.result = { [groups |-> ModulesWithVideos(sortBy, rev)] }]
    /\ UNCHANGED <<fs, unreadable, videos, modules, notes, fsChanges, proc, client>>

\* The sort modes a request carries: the four the code knows, one it does
\* not, and none (the empty string)
SortByArgs == {"name", "name_desc", "date", "date_desc", "size", ""}

getAllModulesWithVideos ==
    \E sortBy \in SortByArgs, rev \in BOOLEAN :
        GetAllModulesWithVideosCall(sortBy, rev)

\* SameModule selecting every video, whatever its module
SameModuleAll(rows, video) == rows

\* WHERE module_id = ? or, for a video without module, module_id IS NULL
SameModule(rows, video) ==
    IF video.module_id # Null
    THEN { v \in rows : v.module_id = video.module_id }
    ELSE { v \in rows : v.module_id = Null }

\* Adjacent with the index taken modulo the length: the last video has the
\* first as next
AdjacentWraps(id, rev) ==
    LET video  == CHOOSE r \in SelectById(videos, id) : TRUE
        list   == Ids(SelectOrdered(SameModule(videos, video),
                                    "sort_order, filename", rev))
        currentIndex == CHOOSE i \in 1..Len(list) : list[i] = id
    IN  [ id   |-> id,
          prev |-> IF currentIndex > 1 THEN list[currentIndex - 1] ELSE Null,
          next |-> list[(currentIndex % Len(list)) + 1] ]

\* prev and next of getAdjacentVideos: the ids around the index of id
Adjacent(id, rev) ==
    LET video  == CHOOSE r \in SelectById(videos, id) : TRUE
        list   == Ids(SelectOrdered(SameModule(videos, video),
                                    "sort_order, filename", rev))
        currentIndex == CHOOSE i \in 1..Len(list) : list[i] = id
    IN  [ id   |-> id,
          prev |-> IF currentIndex > 1 THEN list[currentIndex - 1] ELSE Null,
          next |-> IF currentIndex < Len(list) THEN list[currentIndex + 1]
                   ELSE Null ]

GetAdjacentVideosCall(id, rev) ==
    /\ last' = IF SelectById(videos, id) = {}
               THEN [NoOp EXCEPT !.op = "getAdjacentVideos", !.ok = FALSE,
                                 !.err = "NotFoundError"]
               ELSE [NoOp EXCEPT !.op = "getAdjacentVideos",
                                 !.result = { Adjacent(id, rev) }]
    /\ UNCHANGED <<fs, unreadable, videos, modules, notes, fsChanges, proc, client>>

getAdjacentVideos ==
    \E id \in VideoIdArgs, rev \in BOOLEAN : GetAdjacentVideosCall(id, rev)

RECURSIVE Like(_, _)
\* text LIKE pattern: % stands for any run of characters, _ for any one
\* character, a letter for itself in either case
Like(pattern, text) ==
    IF pattern = <<>> THEN text = <<>>
    ELSE IF Head(pattern) = "%"
         THEN \E k \in 0..Len(text) :
                 Like(Tail(pattern), SubSeq(text, k + 1, Len(text)))
    ELSE IF text = <<>> THEN FALSE
    ELSE /\ \/ Head(pattern) = "_"
            \/ LowerChar(Head(pattern)) = LowerChar(Head(text))
         /\ Like(Tail(pattern), Tail(text))

\* VideoService.searchVideos: title or filename LIKE %query%
searchVideos(query, rev) ==
    LET searchTerm == <<"%">> \o query \o <<"%">>
    IN  Ids(SelectOrdered({ v \in videos : \/ Like(searchTerm, v.title)
                                           \/ Like(searchTerm, v.filename) },
                          "sort_order, filename", rev))

\* SearchResults without the test for an empty query
SearchResultsUnguarded(query, rev) == searchVideos(query, rev)

\* GET /api/search: query ? videoService.searchVideos(query) : []
SearchResults(query, rev) ==
    IF query # <<>> THEN searchVideos(query, rev) ELSE <<>>

SearchCall(query, rev) ==
    /\ last' = [NoOp EXCEPT !.op = "search",
                            !.result = { [query |-> query,
                                          rows  |-> SearchResults(query, rev)] }]
    /\ UNCHANGED <<fs, unreadable, videos, modules, notes, fsChanges, proc, client>>

\* The queries: none, one that nothing matches, and two that match
SearchArgs == { <<>>, <<"z", "z">>, <<"A">>, <<"b", ".">> }

search == \E query \in SearchArgs, rev \in BOOLEAN : SearchCall(query, rev)

\* SELECT COUNT(*) FROM videos WHERE status = ?
CountStatus(rows, status) == Cardinality({ v \in rows : v.status = status })

\* percentComplete with the quotient truncated instead of rounded
percentCompleteTruncated(completed, total) ==
    IF total > 0 THEN (100 * completed) \div total ELSE 0

\* Math.round((completed / total) * 100), or 0 without videos: the integer
\* nearest to the percentage
percentComplete(completed, total) ==
    IF total > 0 THEN (200 * completed + total) \div (2 * total) ELSE 0

\* The object getStats returns
Stats ==
    LET total      == Cardinality(videos)
        completed  == CountStatus(videos, "completed")
        inProgress == CountStatus(videos, "in-progress")
    IN  [ total           |-> total,
          completed       |-> completed,
          inProgress      |-> inProgress,
          unwatched       |-> total - completed - inProgress,
          percentComplete |-> percentComplete(completed, total) ]

getStats ==
    /\ last' = [NoOp EXCEPT !.op = "getStats", !.result = { Stats }]
    /\ UNCHANGED <<fs, unreadable, videos, modules, notes, fsChanges, proc, client>>

----------------------------------------------------------------------------
(* Specifications *)
----------------------------------------------------------------------------
(* The process: the command line, startServer and shutdown *)

\* The values of --port: absent, the default port, another port
PortOptions == { <<>>, <<DefaultPort>>, <<DefaultPort + 1>> }

\* The ports other programs may listen on
BusySets == SUBSET { DefaultPort, DefaultPort + 1 }

Signals == { "SIGINT", "SIGTERM" }

SignalNumber(sig) == IF sig = "SIGINT" THEN 2 ELSE 15

\* process.exit(code), or the end of the process by a signal
Exit(p, code, by) ==
    [ p EXCEPT !.phase = "exited", !.exit = <<code>>, !.by = by,
               !.listening = {} ]

\* database.initialize(); when it throws, startServer rejects and the
\* catch of the command line exits with 1
initialize ==
    /\ proc.phase = "cli"
    /\ \E throws \in BOOLEAN :
          proc' = IF throws
                  THEN Exit(proc, 1, "DatabaseError")
                  ELSE [proc EXCEPT !.phase = "store", !.dbOpen = TRUE]
    /\ UNCHANGED <<fs, unreadable, videos, modules, notes, last, calls,
                   fsChanges, client>>

\* The scan of startServer; a scan that throws rejects startServer
startupScan ==
    /\ proc.phase = "store"
    /\ scanVideos
    /\ proc' = IF last'.ok THEN [proc EXCEPT !.phase = "scanned"]
                           ELSE Exit(proc, 1, "scan")
    /\ UNCHANGED client

\* listen without waiting for the scan
listenBeforeScan ==
    /\ proc.phase \in {"store", "scanned"}
    /\ proc' = IF proc.port \in proc.busy
               THEN Exit(proc, 1, "EADDRINUSE")
               ELSE [proc EXCEPT !.phase = "listening",
                                 !.listening = {proc.port}]
    /\ UNCHANGED <<fs, unreadable, videos, modules, notes, last, calls,
                   fsChanges, client>>

\* app.listen(port) with its callback, or with the error event of a busy
\* port, which rejects startServer; allowFallback is not read
listen ==
    /\ proc.phase = "scanned"
    /\ proc' = IF proc.port \in proc.busy
               THEN Exit(proc, 1, "EADDRINUSE")
               ELSE [proc EXCEPT !.phase = "listening",
                                 !.listening = {proc.port}]
    /\ UNCHANGED <<fs, unreadable, videos, modules, notes, last, calls,
                   fsChanges, client>>

\* server.on('connection'): a browser opens a socket
connection ==
    /\ proc.phase = "listening"
    /\ proc.sockets < MaxSockets
    /\ proc' = [proc EXCEPT !.sockets = @ + 1]
    /\ UNCHANGED <<fs, unreadable, videos, modules, notes, last, calls,
                   fsChanges, client>>

\* shutdown without the test of isShuttingDown
shutdownUnguarded(p) ==
    [ p EXCEPT !.isShuttingDown = TRUE, !.forceExitTimeout = TRUE,
               !.sockets = 0, !.dbOpen = FALSE, !.closing = TRUE,
               !.phase = "closing", !.listening = {},
               !.bodyRuns = @ + 1 ]

\* shutdown(signal): arms the timer, destroys the sockets, closes the
\* database and calls server.close
shutdown(p) ==
    IF p.isShuttingDown THEN p
    ELSE [ p EXCEPT !.isShuttingDown = TRUE, !.forceExitTimeout = TRUE,
                    !.sockets = 0, !.dbOpen = FALSE, !.closing = TRUE,
                    !.phase = "closing", !.listening = {},
                    !.bodyRuns = @ + 1 ]

\* SIGINT or SIGTERM: the handlers exist from the callback of listen on;
\* before it a signal ends the process
signal ==
    /\ proc.phase # "exited"
    /\ proc.signals < MaxSignals
    /\ \E sig \in Signals :
          LET p == [proc EXCEPT !.signals = @ + 1]
          IN  proc' = IF proc.phase \in {"listening", "closing"}
                      THEN shutdown(p)
                      ELSE Exit(p, 128 + SignalNumber(sig), "signal")
    /\ UNCHANGED <<fs, unreadable, videos, modules, notes, last, calls,
                   fsChanges, client>>

\* The callback of server.close: clearTimeout and process.exit(0)
serverClose ==
    /\ proc.phase = "closing" /\ proc.closing
    /\ proc' = Exit([proc EXCEPT !.forceExitTimeout = FALSE], 0, "close")
    /\ UNCHANGED <<fs, unreadable, videos, modules, notes, last, calls,
                   fsChanges, client>>

\* The callback of forceExitTimeout: process.exit(1)
forceExit ==
    /\ proc.phase # "exited" /\ proc.forceExitTimeout
    /\ proc' = Exit(proc, 1, "timeout")
    /\ UNCHANGED <<fs, unreadable, videos, modules, notes, last, calls,
                   fsChanges, client>>

\* A request reaches the routes only while the server listens
Request == proc.phase = "listening"
----------------------------------------------------------------------------
(* The player page: progress autosave and the autoplay countdown *)

\* player.duration of the videos played
PageDuration == 10

\* The positions playback passes on its way to the end
Times == { 8 }

\* GET /video/:id renders the page of a stored video; the page has a next
\* video when getAdjacentVideos names one
openPage ==
    /\ client = NoPage
    /\ \E v \in videos, rev \in BOOLEAN :
          client' = [ NoPage EXCEPT
                        !.videoId = v.id,
                        !.duration = PageDuration,
                        !.currentTime = v.position,
                        !.lastSavedPosition = v.position,
                        !.nextVideoUrl = (Adjacent(v.id, rev).next # Null) ]
    /\ UNCHANGED <<fs, unreadable, videos, modules, notes, last, calls,
                   fsChanges, proc>>

\* The page is open and has not been left
OnPage == client.videoId # Null /\ client.navigatedBy = <<>>

\* ProgressRequest reporting the position of two seconds earlier
ProgressRequestEarly(c) ==
    [ kind |-> "progress",
      position |-> IF c.currentTime > 2 THEN c.currentTime - 2 ELSE 0,
      duration |-> c.duration ]

\* saveProgress(player): a progress request with the current position
ProgressRequest(c) ==
    [ kind |-> "progress", position |-> c.currentTime,
      duration |-> c.duration ]

\* updateStatus('completed'), sent right after a progress request
StatusRequest ==
    [ kind |-> "status", position |-> 0, duration |-> 0 ]

\* 'timeupdate': playback (or a seek) reaches time t; schedules the autosave
\* timer when the position is 5 s away from the last saved one
timeupdate ==
    /\ OnPage
    /\ \E t \in Times :
          /\ t # client.currentTime
          /\ client' = [ client EXCEPT
                 !.currentTime = t,
                 !.ended = FALSE,
                 !.saveTimeout =
                     \/ @
                     \/ t - client.lastSavedPosition >= 5
                     \/ client.lastSavedPosition - t >= 5 ]
    /\ UNCHANGED <<fs, unreadable, videos, modules, notes, last, calls,
                   fsChanges, proc>>

\* 'pause': saveProgress(player)
pause ==
    /\ OnPage
    /\ client' = [ client EXCEPT
                     !.requests = @ \cup {ProgressRequest(client)} ]
    /\ UNCHANGED <<fs, unreadable, videos, modules, notes, last, calls,
                   fsChanges, proc>>

\* The callback of saveTimeout: saveProgress(player), saveTimeout = null
autosave ==
    /\ OnPage
    /\ client.saveTimeout
    /\ client' = [ client EXCEPT
                     !.saveTimeout = FALSE,
                     !.requests = @ \cup {ProgressRequest(client)} ]
    /\ UNCHANGED <<fs, unreadable, videos, modules, notes, last, calls,
                   fsChanges, proc>>

\* startAutoplayCountdown: resets the counter, shows the overlay and starts
\* an interval, whose handle replaces the remembered one
startAutoplayCountdown(c) ==
    IF ~c.nextVideoUrl THEN c
    ELSE [ c EXCEPT !.autoplayCountdown = AUTOPLAY_COUNTDOWN,
                    !.hidden = FALSE,
                    !.ticks = 0,
                    !.started = @ + 1,
                    !.intervals = @ \cup {c.started + 1},
                    !.autoplayInterval = c.started + 1 ]

\* 'ended': the handler of the autosave sends the position and the status
\* completed without waiting, the handler of autoplay starts the countdown
ended ==
    /\ OnPage
    /\ ~client.ended
    /\ client.started < MaxEnded
    /\ LET atEnd == [client EXCEPT !.currentTime = client.duration,
                                   !.ended = TRUE]
           saved == [ atEnd EXCEPT
                        !.staleAtEnd = (client.requests # {}),
                        !.requests = @ \cup { ProgressRequest(atEnd),
                                              StatusRequest } ]
       IN  client' = startAutoplayCountdown(saved)
    /\ UNCHANGED <<fs, unreadable, videos, modules, notes, last, calls,
                   fsChanges, proc>>

\* The server answers one of the pending requests, in any order
serve ==
    /\ client.requests # {}
    /\ \E r \in client.requests :
          /\ IF r.kind = "progress"
             THEN UpdatePositionCall(client.videoId,
                                     [type |-> "number", val |-> r.position],
                                     <<r.duration>>)
             ELSE UpdateStatusCall(client.videoId, "completed")
          /\ client' = [ client EXCEPT
                           !.requests = @ \ {r},
                           !.lastSavedPosition =
                               IF r.kind = "progress" /\ OnPage
                               THEN r.position ELSE @ ]
    /\ UNCHANGED <<calls, proc>>

\* window.location.href = nextVideoUrl: 'beforeunload' sends the position
\* with sendBeacon, and the page is left
Navigate(c, by) ==
    [ c EXCEPT !.navigatedBy = <<by>>,
               !.requests = @ \cup {ProgressRequest(c)} ]

\* The callback of an interval that runs
tick ==
    /\ OnPage
    /\ \E i \in client.intervals :
          LET c == [ client EXCEPT !.autoplayCountdown = @ - 1,
                                   !.ticks = @ + 1 ]
          IN  client' =
                IF c.autoplayCountdown <= 0
                THEN Navigate([c EXCEPT !.intervals = @ \ {c.autoplayInterval}], i)
                ELSE c
    /\ UNCHANGED <<fs, unreadable, videos, modules, notes, last, calls,
                   fsChanges, proc>>

\* cancelAutoplayCountdown, from the cancel button or the Escape key while
\* the overlay is shown
cancelAutoplayCountdown ==
    /\ OnPage
    /\ ~client.hidden
    /\ client' = [ client EXCEPT
                     !.intervals = @ \ {client.autoplayInterval},
                     !.autoplayInterval = Null,
                     !.hidden = TRUE,
                     !.cancelledUpTo = client.started ]
    /\ UNCHANGED <<fs, unreadable, videos, modules, notes, last, calls,
                   fsChanges, proc>>

\* The skip button of the overlay: navigates at once
skipToNext ==
    /\ OnPage
    /\ ~client.hidden
    /\ client' = Navigate([client EXCEPT
                             !.intervals = @ \ {client.autoplayInterval}], 0)
    /\ UNCHANGED <<fs, unreadable, videos, modules, notes, last, calls,
                   fsChanges, proc>>

\* A change of the directory tree, counted
TreeChange == fsChanges < MaxFsChanges /\ fsChanges' = fsChanges + 1

\* A progress or notes call, counted
Call == calls < MaxCalls /\ calls' = calls + 1

\* Scans interleaved with changes of the directory tree and with a bounded
\* number of calls that give rows a playback state and notes: a position
\* past the completion threshold, a manual status, a note
Next ==
    \/ TreeChange /\ AddFile
    \/ TreeChange /\ RemoveFile
    \/ TreeChange /\ DenyDirectory
    \/ TreeChange /\ AllowDirectory
    \/ Detached /\ scanVideos
    \/ Detached /\ Call /\ updatePositionWith({[type |-> "number", val |-> 9]},
                                               {<<10>>})
    \/ Detached /\ Call /\ updateStatusWith({"in-progress"})
    \/ Call /\ saveNotesWith({"note"})

Spec == Init /\ [][Next]_vars

\* A fixed directory tree: one video under the root, one in a module
InitProgress ==
    /\ fs = FixedFiles \cup { <<N_01a>>, <<N_M1, N_01a>> }
    /\ unreadable = {}
    /\ videos = {}
    /\ modules = {}
    /\ notes = {}
    /\ last = NoOp
    /\ calls = 0
    /\ fsChanges = 0
    /\ proc = Serving
    /\ client = NoPage

\* Any number of scans and progress calls over the fixed tree
NextProgress ==
    \/ Detached /\ scanVideos
    \/ Detached /\ UNCHANGED calls /\ updatePosition
    \/ Detached /\ UNCHANGED calls /\ updateStatus

SpecProgress == InitProgress /\ [][NextProgress]_vars

\* Any number of scans and notes calls over the fixed tree
NextNotes ==
    \/ Detached /\ scanVideos
    \/ UNCHANGED calls /\ getNotes
    \/ UNCHANGED calls /\ saveNotes
    \/ UNCHANGED calls /\ deleteNotes

SpecNotes == InitProgress /\ [][NextNotes]_vars

\* The trees the library course starts from: with videos under the root,
\* and with videos in module directories only
LibraryTrees == { LibraryStart, { p \in LibraryStart : Len(p) > 1 } }

\* The course of the library queries, before its first scan
InitLibrary ==
    /\ fs \in { FixedFiles \cup present : present \in LibraryTrees }
    /\ unreadable = {}
    /\ videos = {}
    /\ modules = {}
    /\ notes = {}
    /\ last = NoOp
    /\ calls = 0
    /\ fsChanges = 0
    /\ proc = Serving
    /\ client = NoPage

\* Scans, a file that arrives later, and any number of listing, adjacency
\* and search queries
NextLibrary ==
    \/ TreeChange /\ AddFile
    \/ Detached /\ scanVideos
    \/ UNCHANGED calls /\ getAllModulesWithVideos
    \/ UNCHANGED calls /\ getAdjacentVideos
    \/ UNCHANGED calls /\ search

SpecLibrary == InitLibrary /\ [][NextLibrary]_vars

\* The course with the file numbered 1000, before its first scan
InitSortKey ==
    /\ fs = FixedFiles \cup SortKeyStart
    /\ unreadable = {}
    /\ videos = {}
    /\ modules = {}
    /\ notes = {}
    /\ last = NoOp
    /\ calls = 0
    /\ fsChanges = 0
    /\ proc = Serving
    /\ client = NoPage

SpecSortKey == InitSortKey /\ [][NextLibrary]_vars

\* Scans, a file that arrives later, a bounded number of progress calls,
\* and any number of statistics queries
NextStats ==
    \/ TreeChange /\ AddFile
    \/ Detached /\ scanVideos
    \/ Detached /\ Call /\ updatePositionWith({[type |-> "number", val |-> 9]},
                                               {<<10>>})
    \/ Detached /\ Call /\ updateStatusWith({"in-progress"})
    \/ UNCHANGED calls /\ getStats

\* The library course with videos under the root
InitStats == InitLibrary /\ fs = FixedFiles \cup LibraryStart

SpecStats == InitStats /\ [][NextStats]_vars

\* The command line on the fixed tree: every value of --port, every set
\* of busy ports
InitProcess ==
    /\ fs = FixedFiles \cup { <<N_01a>>, <<N_M1, N_01a>> }
    /\ unreadable = {}
    /\ videos = {}
    /\ modules = {}
    /\ notes = {}
    /\ last = NoOp
    /\ calls = 0
    /\ fsChanges = 0
    /\ proc \in { Launched(o, b) : o \in PortOptions, b \in BusySets }
    /\ client = NoPage

\* The startup, requests while the server listens, signals and the end
NextProcess ==
    \/ initialize
    \/ startupScan
    \/ listen
    \/ connection
    \/ signal
    \/ serverClose
    \/ forceExit
    \/ Request /\ UNCHANGED calls /\ getStats
    \/ Request /\ Detached /\ Call
          /\ updatePositionWith({[type |-> "number", val |-> 9]}, {<<10>>})

SpecProcess == InitProcess /\ [][NextProcess]_vars

\* The event loop runs the callback of a timer that is due
SpecProcessFair == SpecProcess /\ WF_vars(forceExit)

\* A course of two videos under the root, served by a running process
InitPlayer ==
    /\ fs = FixedFiles \cup { <<N_01a>>, <<N_bMP4>> }
    /\ unreadable = {}
    /\ videos = {}
    /\ modules = {}
    /\ notes = {}
    /\ last = NoOp
    /\ calls = 0
    /\ fsChanges = 0
    /\ proc = Serving
    /\ client = NoPage

\* The page of a video: playback, its ends, the countdown and its buttons
NextAutoplay ==
    \/ Detached /\ scanVideos
    \/ openPage
    \/ timeupdate
    \/ ended
    \/ tick
    \/ cancelAutoplayCountdown
    \/ skipToNext

SpecAutoplay == InitPlayer /\ [][NextAutoplay]_vars

\* The page of a video: playback, the autosave timer, the end of playback,
\* and the server answering the requests of the page
NextEnded ==
    \/ Detached /\ scanVideos
    \/ openPage
    \/ timeupdate
    \/ pause
    \/ autosave
    \/ ended
    \/ serve

SpecEnded == InitPlayer /\ [][NextEnded]_vars

----------------------------------------------------------------------------
(* Properties *)

\* The order unwatched < in-progress < completed
Rank(status) ==
    CASE status = "unwatched"   -> 0
      [] status = "in-progress" -> 1
      [] status = "completed"   -> 2

\* The row of video id in a table
RowOf(rows, id) == CHOOSE r \in rows : r.id = id

\* The step is a call of operation op that returned without throwing
Returned(op) == last'.op = op /\ last'.ok

\* C1: a successful updatePosition call never lowers the status of any
\* video in the order unwatched < in-progress < completed.
C1_NeverDowngrades ==
    [][Returned("updatePosition") =>
         \A v \in videos :
            Rank(RowOf(videos', v.id).status) >= Rank(v.status)]_vars

\* C2: in every reachable state a video whose status is unwatched has
\* position 0; and a successful updateStatus(id, 'unwatched') leaves the
\* video unwatched at position 0, whatever its position was.
C2_UnwatchedAtZero ==
    /\ [](\A v \in videos : v.status = "unwatched" => v.position = 0)
    /\ [][\A videoId \in VideoIdArgs :
            UpdateStatusCall(videoId, "unwatched") /\ Returned("updateStatus")
              => /\ RowOf(videos', videoId).status = "unwatched"
                 /\ RowOf(videos', videoId).position = 0]_vars

\* C2 witness: a video that had been played (it has a duration) was set
\* back to unwatched and is at position 0.
C2_Witness ==
    /\ last.op = "updateStatus" /\ last.ok
    /\ \E r \in last.video :
          r.status = "unwatched" /\ r.position = 0 /\ r.duration = 10

\* C3: once the stored duration is positive, a successful updatePosition
\* call leaves it unchanged when the supplied duration is omitted, zero or
\* negative, and sets it to the supplied duration when that is positive.
C3_DurationNeverReset ==
    [][\A videoId \in VideoIdArgs, position \in PositionArgs,
          duration \in DurationArgs :
         (/\ UpdatePositionCall(videoId, position, duration)
          /\ Returned("updatePosition")
          /\ RowOf(videos, videoId).duration > 0)
           => RowOf(videos', videoId).duration =
                IF duration # <<>> /\ duration[1] > 0
                THEN duration[1] ELSE RowOf(videos, videoId).duration]_vars

\* The paths of the rows of a table
Paths(rows) == { r.path : r \in rows }

\* The video files a scan of the tree reaches: a video extension, not
\* inside the reserved folder, no unreadable directory on the way
Discoverable ==
    { p \in fs :
        /\ FileTable[p].isVideo
        /\ \A i \in 1..Len(p) : p[i] # dbFolder
        /\ \A i \in 0..(Len(p) - 1) : SubSeq(p, 1, i) \notin unreadable }

\* C4: a scan, whether it succeeds or fails, keeps every video row as it is
\* but for its title, keeps every module row, deletes nothing (also when
\* the file is gone) and leaves the notes alone.
C4_RescanKeepsRows ==
    [][last'.op = "scan" =>
         /\ \A v \in videos :
               \E w \in videos' : w = [v EXCEPT !.title = w.title]
         /\ modules \subseteq modules'
         /\ notes' = notes]_vars

\* C4 witness: a scan has run over a store that holds a row with a
\* playback state and a row whose file is gone.
C4_Witness ==
    /\ last.op = "scan" /\ last.ok /\ last.existing > 0
    /\ \E v \in videos : v.status # "unwatched" \/ v.position > 0
    /\ \E v \in videos : v.path \notin fs

\* C5: when two scans succeed in a row (nothing happens between them), the
\* second returns added = 0 and existing = total and leaves the video and
\* module rows as the first left them.
C5_RescanIdempotent ==
    [][(last.op = "scan" /\ last.ok /\ Returned("scan")) =>
         /\ last'.added = 0
         /\ last'.existing = last'.total
         /\ videos' = videos
         /\ modules' = modules]_vars

\* C5 witness: a scan has directly followed a successful scan of a tree
\* with several videos; it added none and found every file present.
C5_Witness ==
    /\ last.op = "scan" /\ last.ok /\ last.again
    /\ last.added = 0 /\ last.total > 1 /\ last.existing = last.total
    /\ Cardinality(videos) = last.total

\* C6: no two video rows share a path and no two module rows share a path.
C6_PathsUnique ==
    /\ \A v, w \in videos : v.path = w.path => v = w
    /\ \A m, n \in modules : m.path = n.path => m = n

\* C6 witness: after two changes of the tree a scan has met paths it knew
\* and paths it did not, and the store holds a module.
C6_Witness ==
    /\ fsChanges >= 2
    /\ last.op = "scan" /\ last.ok /\ last.added > 0 /\ last.existing > 0
    /\ modules # {}

\* C7: a scan that fails leaves the video and module rows exactly as they
\* were and raises the failure; a scan that succeeds has committed every
\* insert it counted.
C7_ScanAtomic ==
    [][last'.op = "scan" =>
         IF last'.ok
         THEN Cardinality(videos') = Cardinality(videos) + last'.added
         ELSE /\ videos' = videos
              /\ modules' = modules
              /\ last'.err = "SqliteError"]_vars

\* C7 witness: a scan has failed on a tree with two or more files that
\* have no row, so that it failed at its first write or after one.
C7_Witness ==
    /\ last.op = "scan" /\ ~last.ok
    /\ Cardinality(Discoverable \ Paths(videos)) >= 2

\* C8: a successful scan returns total = the number of video files it can
\* reach (none of the reserved folder), added = those that had no row,
\* existing = those that had one, total = added + existing; afterwards each
\* of them has exactly one row, the new rows unwatched at position 0.
C8_CountsExact ==
    [][Returned("scan") =>
         /\ last'.total = Cardinality(Discoverable)
         /\ last'.added = Cardinality(Discoverable \ Paths(videos))
         /\ last'.existing = Cardinality(Discoverable \cap Paths(videos))
         /\ last'.total = last'.added + last'.existing
         /\ \A p \in Discoverable :
               Cardinality({ w \in videos' : w.path = p }) = 1
         /\ \A w \in videos' :
               w.path \notin Paths(videos)
                 => w.status = "unwatched" /\ w.position = 0]_vars

\* C8 witness: a scan has added rows and found others present, on a tree
\* that holds more video files than it counted (the one of the reserved
\* folder).
C8_Witness ==
    /\ last.op = "scan" /\ last.ok /\ last.added > 0 /\ last.existing > 0
    /\ last.total < Cardinality({ p \in fs : FileTable[p].isVideo })

\* C9: when a successful updatePosition call on a video is followed by
\* another one on the same video, with a position not lower and the same
\* duration, the status after the second is not lower than after the first.
C9_MonotoneRun ==
    [][\A videoId \in VideoIdArgs, position \in PositionArgs,
          duration \in DurationArgs :
         (/\ last.op = "updatePosition" /\ last.ok
          /\ \E r \in last.video : r.id = videoId
          /\ UpdatePositionCall(videoId, position, duration)
          /\ Returned("updatePosition")
          /\ position.val >= RowOf(videos, videoId).position
          /\ (duration = <<>> \/ duration[1] = RowOf(videos, videoId).duration))
           => Rank(RowOf(videos', videoId).status)
                >= Rank(RowOf(videos, videoId).status)]_vars

\* The duration C10 derives the status from: the supplied one when it is
\* present and positive, else the stored one
EffectiveDuration(video, duration) ==
    IF duration # <<>> /\ duration[1] > 0 THEN duration[1] ELSE video.duration

\* C10: a successful updatePosition call sets the status to completed when
\* the effective duration d is positive and position / d >= 0.9; otherwise
\* it makes an unwatched video in-progress when position > 0; otherwise it
\* leaves the status; and it returns the row with the new position and
\* status.
C10_StatusDerivation ==
    [][\A videoId \in VideoIdArgs, position \in PositionArgs,
          duration \in DurationArgs :
         (UpdatePositionCall(videoId, position, duration)
            /\ Returned("updatePosition"))
           => LET old == RowOf(videos, videoId)
                  new == RowOf(videos', videoId)
                  d   == EffectiveDuration(old, duration)
              IN  /\ new.status =
                       IF d > 0 /\ position.val * 100
                                     >= CompletionThresholdPercent * d
                       THEN "completed"
                       ELSE IF position.val > 0 /\ old.status = "unwatched"
                            THEN "in-progress"
                            ELSE old.status
                  /\ new.position = position.val
                  /\ last'.video = {new}]_vars

\* C11: updatePosition throws ValidationError (HTTP 400) when the position
\* is negative or is not a number, whether or not the video exists, and
\* NotFoundError (HTTP 404) when the position is valid and no video has the
\* id; in both cases no row of any table changes.
C11_PositionRejected ==
    [][\A videoId \in VideoIdArgs, position \in PositionArgs :
         /\ (position.type # "number" \/ position.val < 0) =>
              \A duration \in DurationArgs :
                 UpdatePositionCall(videoId, position, duration) =>
                   /\ ~last'.ok /\ last'.err = "ValidationError"
                   /\ statusCode(last'.err) = 400
                   /\ videos' = videos /\ modules' = modules /\ notes' = notes
         /\ (position.type = "number" /\ position.val >= 0
                /\ \A v \in videos : v.id # videoId) =>
              \A duration \in DurationArgs :
                 UpdatePositionCall(videoId, position, duration) =>
                   /\ ~last'.ok /\ last'.err = "NotFoundError"
                   /\ statusCode(last'.err) = 404
                   /\ videos' = videos /\ modules' = modules
                   /\ notes' = notes]_vars

\* C11 witness: updatePosition was rejected for its position on a store
\* whose videos have a playback state.
C11_Witness ==
    /\ last.op = "updatePosition" /\ ~last.ok /\ last.err = "ValidationError"
    /\ \E v \in videos : v.position > 0 /\ v.status = "in-progress"

\* C12: updateStatus throws ValidationError (HTTP 400) when the status is
\* none of unwatched, in-progress, completed, and NotFoundError (HTTP 404)
\* when the status is valid and the video does not exist; in both cases no
\* row of any table changes.
C12_StatusRejected ==
    [][\A videoId \in VideoIdArgs, status \in StatusArgs :
         UpdateStatusCall(videoId, status) =>
           /\ status \notin {"unwatched", "in-progress", "completed"}
                => /\ ~last'.ok /\ last'.err = "ValidationError"
                   /\ statusCode(last'.err) = 400
                   /\ videos' = videos /\ modules' = modules /\ notes' = notes
           /\ (status \in {"unwatched", "in-progress", "completed"}
                  /\ \A v \in videos : v.id # videoId)
                => /\ ~last'.ok /\ last'.err = "NotFoundError"
                   /\ statusCode(last'.err) = 404
                   /\ videos' = videos /\ modules' = modules
                   /\ notes' = notes]_vars

\* C12 witness: updateStatus was rejected on a populated store: a valid
\* status for an id that no video has.
C12_Witness ==
    /\ last.op = "updateStatus" /\ ~last.ok /\ last.err = "NotFoundError"
    /\ \E v \in videos : v.status = "completed"

\* C13: a successful updateStatus(id, s) sets the status of video id to s,
\* keeps its position when s is in-progress or completed, keeps its other
\* columns, and changes no other video, no module and no notes.
C13_StatusFrame ==
    [][\A videoId \in VideoIdArgs, status \in StatusArgs :
         (UpdateStatusCall(videoId, status) /\ Returned("updateStatus")) =>
           LET old == RowOf(videos, videoId)
               new == RowOf(videos', videoId)
           IN  /\ new.status = status
               /\ status # "unwatched" => new.position = old.position
               /\ new = [old EXCEPT !.status = new.status,
                                    !.position = new.position]
               /\ videos' \ {new} = videos \ {old}
               /\ modules' = modules
               /\ notes' = notes]_vars

\* C13 witness: a video at a position above 0 was set to completed by
\* updateStatus while the store holds another video.
C13_Witness ==
    /\ last.op = "updateStatus" /\ last.ok
    /\ \E r \in last.video :
          r.status = "completed" /\ r.position = 1 /\ r.duration = 10
    /\ Cardinality(videos) > 1

\* C15: getNotes of an existing video returns a record, never nothing: the
\* notes row, or, when the video has none (never saved, or deleted), a
\* record of that video with content ''; for an id no video has it throws
\* NotFoundError.
C15_NotesNeverAbsent ==
    [][\A videoId \in VideoIdArgs :
         GetNotesCall(videoId) =>
           IF \E v \in videos : v.id = videoId
           THEN /\ last'.ok
                /\ Cardinality(last'.result) = 1
                /\ \A r \in last'.result :
                      /\ r.video_id = videoId
                      /\ (\A n \in notes : n.video_id # videoId)
                           => r.content = ""
           ELSE ~last'.ok /\ last'.err = "NotFoundError"]_vars

\* C15 witness: getNotes returned the empty record for a video without a
\* notes row, on a store where another video has notes.
C15_Witness ==
    /\ last.op = "getNotes" /\ last.ok /\ notes # {}
    /\ \E r \in last.result :
          r.content = "" /\ \A n \in notes : n.video_id # r.video_id

\* C16: there is at most one notes row per video; a successful
\* saveNotes(id, c) leaves one row for the video, with content c, and
\* returns it; getNotes right after it returns content c; and a save that
\* repeats the save before it leaves the table as it was.
C16_NotesUpsert ==
    /\ [](\A n, k \in notes : n.video_id = k.video_id => n = k)
    /\ [][\A videoId \in VideoIdArgs, content \in ContentArgs :
            LET saved == [video_id |-> videoId, content |-> content]
            IN  /\ (SaveNotesCall(videoId, content) /\ Returned("saveNotes"))
                     => /\ { n \in notes' : n.video_id = videoId } = {saved}
                        /\ last'.result = {saved}
                        /\ last'.again => notes' = notes
                /\ (/\ last.op = "saveNotes" /\ last.ok
                    /\ last.result = {saved}
                    /\ GetNotesCall(videoId))
                     => last'.result = {saved}]_vars

\* C16 witness: the same notes were saved twice in a row for a video,
\* after notes of another content had been saved for it or for another
\* video.
C16_Witness ==
    /\ last.op = "saveNotes" /\ last.ok /\ last.again
    /\ \E r \in last.result : r.content = "note"
    /\ Cardinality(notes) = 2

\* C20: after a successful scan every discovered file directly under the
\* root has a null module reference, and every other discovered file
\* refers to the module row of its immediate parent directory (the path of
\* the directory that holds the file, named by its last component), however
\* deep the file lies; only files directly under the root have a null
\* reference.
C20_ParentModule ==
    [][Returned("scan") =>
         \A p \in Discoverable :
            \A w \in videos' :
               w.path = p =>
                 IF Len(p) = 1
                 THEN w.module_id = Null
                 ELSE \E m \in modules' :
                         /\ m.id = w.module_id
                         /\ m.path = SubSeq(p, 1, Len(p) - 1)
                         /\ m.name = p[Len(p) - 1]]_vars

\* C14: getStats returns total, completed, inProgress and unwatched equal
\* to the numbers of video rows in all and with each status, so that
\* unwatched + inProgress + completed = total; percentComplete is 0 when
\* there is no video and otherwise the integer nearest to
\* 100 * completed / total.
C14_StatsConsistent ==
    [][last'.op = "getStats" =>
         \A r \in last'.result :
            /\ r.total = Cardinality(videos)
            /\ r.completed =
                  Cardinality({ v \in videos : v.status = "completed" })
            /\ r.inProgress =
                  Cardinality({ v \in videos : v.status = "in-progress" })
            /\ r.unwatched =
                  Cardinality({ v \in videos : v.status = "unwatched" })
            /\ r.unwatched + r.inProgress + r.completed = r.total
            /\ IF r.total = 0 THEN r.percentComplete = 0
               ELSE /\ 2 * (100 * r.completed - r.percentComplete * r.total)
                         <= r.total
                    /\ 2 * (r.percentComplete * r.total - 100 * r.completed)
                         <= r.total]_vars

\* C14 witness: getStats returned the percentage 17 for one completed
\* video of six, a quotient that is rounded up.
C14_Witness ==
    /\ last.op = "getStats"
    /\ \E r \in last.result :
          r.total = 6 /\ r.completed = 1 /\ r.percentComplete = 17

\* Row a is not after row b in the order by sort key, then filename
NameKeyLE(a, b) ==
    \/ a.sort_order < b.sort_order
    \/ a.sort_order = b.sort_order /\ StrLE(a.filename, b.filename)

\* Row a may precede row b under sort mode sortBy
ModeLE(sortBy, a, b) ==
    CASE sortBy = "name_desc" -> NameKeyLE(b, a)
      [] sortBy = "date"      -> a.created_at <= b.created_at
      [] sortBy = "date_desc" -> a.created_at >= b.created_at
      [] OTHER                -> NameKeyLE(a, b)

\* C17: getAllModulesWithVideos returns the pseudo-module (id null, name
\* "Videos") first if and only if some video has no module, then every
\* module once, ordered by sort key then name; the videos of each group are
\* exactly the videos of that module, ordered by the mode: sort key then
\* filename, ascending for 'name' and for an unknown or absent mode,
\* descending for 'name_desc'; creation time ascending for 'date',
\* descending for 'date_desc'.
C17_ListingOrder ==
    [][\A sortBy \in SortByArgs, rev \in BOOLEAN :
         (last'.op = "getAllModulesWithVideos"
            /\ GetAllModulesWithVideosCall(sortBy, rev)) =>
           \A r \in last'.result :
              LET g       == r.groups
                  hasRoot == \E v \in videos : v.module_id = Null
                  first   == IF hasRoot THEN 2 ELSE 1
              IN  /\ hasRoot => /\ Len(g) >= 1
                                /\ g[1].id = Null /\ g[1].name = VideosName
                  /\ Len(g) = Cardinality(modules) + first - 1
                  /\ \A i \in first..Len(g) :
                        \E m \in modules : m.id = g[i].id /\ m.name = g[i].name
                  /\ \A i, j \in first..Len(g) :
                        i < j =>
                          LET a == RowOf(modules, g[i].id)
                              b == RowOf(modules, g[j].id)
                          IN  /\ a # b
                              /\ \/ a.sort_order < b.sort_order
                                 \/ /\ a.sort_order = b.sort_order
                                    /\ StrLE(a.name, b.name)
                  /\ \A i \in 1..Len(g) :
                        /\ { g[i].videos[k] : k \in 1..Len(g[i].videos) }
                              = { v.id : v \in { w \in videos :
                                                   w.module_id = g[i].id } }
                        /\ \A k, n \in 1..Len(g[i].videos) :
                              k < n =>
                                /\ g[i].videos[k] # g[i].videos[n]
                                /\ ModeLE(sortBy,
                                          RowOf(videos, g[i].videos[k]),
                                          RowOf(videos, g[i].videos[n]))]_vars

\* C17 witness: a listing of four groups, the pseudo-module first with
\* three videos of which the first was created after the second, and two
\* modules in another order than that of their row ids.
C17_Witness ==
    /\ last.op = "getAllModulesWithVideos"
    /\ \E r \in last.result :
          /\ Len(r.groups) = 4
          /\ r.groups[1].id = Null /\ Len(r.groups[1].videos) = 3
          /\ RowOf(videos, r.groups[1].videos[1]).created_at
                > RowOf(videos, r.groups[1].videos[2]).created_at
          /\ r.groups[3].id > r.groups[4].id

\* C18: getAdjacentVideos(id) returns as prev the video that comes last
\* among those of the same module reference (null counted as one) that
\* precede video id by sort key then filename, null exactly when there is
\* none, and as next the one that comes first among those that follow it,
\* null exactly when there is none; for an id no video has it throws
\* NotFoundError.
C18_AdjacentInModule ==
    [][\A id \in VideoIdArgs, rev \in BOOLEAN :
         (last'.op = "getAdjacentVideos" /\ GetAdjacentVideosCall(id, rev)) =>
           IF \E v \in videos : v.id = id
           THEN /\ last'.ok
                /\ \A r \in last'.result :
                      LET v      == RowOf(videos, id)
                          peers  == { w \in videos :
                                        w.module_id = v.module_id /\ w # v }
                          before == { w \in peers : NameKeyLE(w, v) }
                          after  == { w \in peers : NameKeyLE(v, w) }
                      IN  /\ (r.prev = Null) <=> (before = {})
                          /\ (r.next = Null) <=> (after = {})
                          /\ r.prev # Null =>
                                \E w \in before :
                                   /\ w.id = r.prev
                                   /\ \A u \in before : NameKeyLE(u, w)
                          /\ r.next # Null =>
                                \E w \in after :
                                   /\ w.id = r.next
                                   /\ \A u \in after : NameKeyLE(w, u)
           ELSE ~last'.ok /\ last'.err = "NotFoundError"]_vars

\* C18 witness: a video with a neighbour on either side in its module, in
\* a store that holds videos of other modules with sort keys in between.
C18_Witness ==
    /\ last.op = "getAdjacentVideos" /\ last.ok
    /\ \E r \in last.result :
          /\ r.prev # Null /\ r.next # Null
          /\ \E w \in videos :
                /\ w.module_id # RowOf(videos, r.id).module_id
                /\ RowOf(videos, r.prev).sort_order < w.sort_order
                /\ w.sort_order < RowOf(videos, r.id).sort_order

\* The query occurs in the text, whatever the case of the letters
Contains(query, text) ==
    \E i \in 1..(Len(text) + 1) :
       /\ i + Len(query) - 1 <= Len(text)
       /\ toLowerCase(SubSeq(text, i, i + Len(query) - 1)) = toLowerCase(query)

IsNumbered(row) == LeadingDigits(row.filename) > 0

\* C21: the sort key of a video is the number its filename starts with, or
\* the default when it starts with none; in the default listing no video
\* without a number comes before a video with a number in its group, and
\* getAdjacentVideos never gives a numbered video as next of one without a
\* number, nor one without a number as prev of a numbered video.
C21_UnnumberedLast ==
    /\ [](\A v \in videos :
            v.sort_order = IF IsNumbered(v)
                           THEN parseInt(v.filename, LeadingDigits(v.filename))
                           ELSE DefaultSortOrder)
    /\ [][/\ \A rev \in BOOLEAN :
               (last'.op = "getAllModulesWithVideos"
                  /\ GetAllModulesWithVideosCall("name", rev)) =>
                 \A r \in last'.result :
                    \A i \in 1..Len(r.groups) :
                       \A k, n \in 1..Len(r.groups[i].videos) :
                          k < n =>
                            ~(/\ ~IsNumbered(RowOf(videos, r.groups[i].videos[k]))
                              /\ IsNumbered(RowOf(videos, r.groups[i].videos[n])))
          /\ (last'.op = "getAdjacentVideos" /\ last'.ok) =>
                 \A r \in last'.result :
                    /\ r.next # Null =>
                          ~(/\ ~IsNumbered(RowOf(videos, r.id))
                            /\ IsNumbered(RowOf(videos, r.next)))
                    /\ r.prev # Null =>
                          ~(/\ IsNumbered(RowOf(videos, r.id))
                            /\ ~IsNumbered(RowOf(videos, r.prev)))]_vars

\* C22: a scan over a tree with directories that cannot be read (and no
\* failure of the storage engine) succeeds, and afterwards every video file
\* outside the reserved folder whose directories can all be read has a row,
\* those listed before and after an unreadable directory included.
C22_UnreadableSkipped ==
    [][\A rev \in BOOLEAN :
         (/\ last'.op = "scan" /\ unreadable # {}
          /\ ScanCall(_findVideoFiles(<<>>, rev), 0)) =>
           /\ last'.ok
           /\ \A p \in fs :
                 (/\ toLowerCase(extname(p[Len(p)])) \in videoExtensions
                  /\ p[1] # dbFolder
                  /\ \A i \in 1..(Len(p) - 1) : SubSeq(p, 1, i) \notin unreadable)
                   => \E w \in videos' : w.path = p]_vars

\* C22 witness: a scan succeeded while directory M1 could not be read: the
\* two files under the root, listed before and after M1, have rows, and a
\* file of M1 has none.
C22_Witness ==
    /\ last.op = "scan" /\ last.ok /\ last.added = 2
    /\ <<N_M1>> \in unreadable
    /\ {<<N_01a>>, <<N_bMP4>>} \subseteq Paths(videos)
    /\ <<N_M1, N_01a>> \in fs \ Paths(videos)

\* C23: in every reachable state the status of every video is one of
\* unwatched, in-progress, completed, and its position is not negative.
C23_StatusAndPositionValid ==
    \A v \in videos :
       /\ v.status \in {"unwatched", "in-progress", "completed"}
       /\ v.position >= 0

\* C23 witness: after calls that were rejected and calls that were not,
\* one video is completed at position 10 and the other in progress at a
\* position above 0.
C23_Witness ==
    /\ last.op = "updatePosition" /\ ~last.ok
    /\ \E v, w \in videos :
          /\ v.status = "completed" /\ v.position = 10
          /\ w.status = "in-progress" /\ w.position > 0

RECURSIVE SumOfSizes(_, _)
\* The number of videos in the first i groups of a listing
SumOfSizes(groups, i) ==
    IF i = 0 THEN 0 ELSE SumOfSizes(groups, i - 1) + Len(groups[i].videos)

\* C29: for every sort mode the listing holds every video exactly once, in
\* the group of its module (the first group, of id null, when it has
\* none), so that the sizes of the groups add up to the total of getStats.
C29_ListingComplete ==
    [][\A sortBy \in SortByArgs, rev \in BOOLEAN :
         (last'.op = "getAllModulesWithVideos"
            /\ GetAllModulesWithVideosCall(sortBy, rev)) =>
           \A r \in last'.result :
              LET g      == r.groups
                  places == [ v \in videos |->
                               { <<i, k>> \in (1..Len(g)) \X (1..Cardinality(videos)) :
                                   /\ k <= Len(g[i].videos)
                                   /\ g[i].videos[k] = v.id } ]
              IN  /\ \A v \in videos :
                        /\ Cardinality(places[v]) = 1
                        /\ \A pl \in places[v] : g[pl[1]].id = v.module_id
                  /\ SumOfSizes(g, Len(g)) = Stats.total]_vars

\* C29 witness: a listing of seven videos in four groups, the group of
\* module M1 holding the two videos of its directory tree.
C29_Witness ==
    /\ last.op = "getAllModulesWithVideos"
    /\ Cardinality(videos) = 7
    /\ \E r \in last.result :
          /\ SumOfSizes(r.groups, Len(r.groups)) = 7
          /\ \E i \in 1..Len(r.groups) :
                r.groups[i].name = N_M1 /\ Len(r.groups[i].videos) = 2

RECURSIVE ChainFrom(_, _, _)
\* The videos met from video id on by following next, at most fuel of them
ChainFrom(id, rev, fuel) ==
    IF id = Null \/ fuel = 0 THEN <<>>
    ELSE <<id>> \o ChainFrom(Adjacent(id, rev).next, rev, fuel - 1)

\* C30: for all videos a and b, next of a is b if and only if prev of b is
\* a; and from the first video of a module (the one without prev) the
\* chain of next visits every video of that module exactly once and ends
\* with null.
C30_AdjacentChain ==
    /\ \A a, b \in videos : \A ra, rb \in BOOLEAN :
          (Adjacent(a.id, ra).next = b.id) <=> (Adjacent(b.id, rb).prev = a.id)
    /\ \A v \in videos : \A rev \in BOOLEAN :
          Adjacent(v.id, rev).prev = Null =>
            LET chain == ChainFrom(v.id, rev, Cardinality(videos) + 1)
                peers == { w.id : w \in { x \in videos :
                                            x.module_id = v.module_id } }
            IN  /\ { chain[i] : i \in 1..Len(chain) } = peers
                /\ Len(chain) = Cardinality(peers)

\* C30 witness: getAdjacentVideos answered for the last video of a chain
\* of three, in a store of seven videos.
C30_Witness ==
    /\ last.op = "getAdjacentVideos" /\ last.ok
    /\ Cardinality(videos) = 7
    /\ \E r \in last.result :
          /\ r.next = Null /\ r.prev # Null
          /\ Adjacent(r.prev, FALSE).prev # Null

\* The operations the routes call
RequestOps == { "getStats", "updatePosition" }

\* C24: the startup is ordered and fails fast.  The scan runs on an open
\* store while the server does not listen; the server listens, and a
\* request is served, only once the scan has given every video file its
\* row; when the store fails to initialize the process has exited with 1,
\* without a scan and without listening, and an exited process stays so.
C24_StartupOrdered ==
    /\ [](proc.listening # {} => proc.dbOpen /\ Discoverable \subseteq Paths(videos))
    /\ [](proc.by = "DatabaseError" =>
            /\ proc.phase = "exited" /\ proc.exit = <<1>>
            /\ proc.listening = {} /\ videos = {})
    /\ [][/\ (last'.op = "scan" /\ last' # last) =>
               proc.dbOpen /\ proc.listening = {} /\ proc'.listening = {}
          /\ (last'.op \in RequestOps /\ last' # last) =>
               proc.listening # {} /\ Discoverable \subseteq Paths(videos)
          /\ proc.phase = "exited" => proc' = proc]_vars

\* C24 witness: a request answered by the listening server, after the scan
\* that found the two videos.
C24_Witness ==
    /\ proc.phase = "listening"
    /\ last.op = "getStats"
    /\ \E r \in last.result : r.total = 2

\* C25: without --port a busy default port does not make the startup
\* fail: the server listens on another port, one that is not busy; with
\* --port a busy port makes the startup fail with exit code 1.
C25_PortFallback ==
    /\ [](proc.allowFallback => proc.by # "EADDRINUSE")
    /\ [](proc.listening \cap proc.busy = {})
    /\ []((~proc.allowFallback /\ proc.port \in proc.busy) =>
            /\ proc.listening = {}
            /\ proc.phase \notin {"listening", "closing"}
            /\ proc.by \notin {"", "signal", "DatabaseError", "scan"} =>
                  proc.by = "EADDRINUSE" /\ proc.exit = <<1>>)

\* C26: the body of shutdown runs at most once, and exactly once when a
\* handled signal has arrived; the database is closed when the callback of
\* server.close runs; a process that shuts down exits, with 0 from the
\* callback of server.close and with 1 from the timer.
C26_ShutdownOnce ==
    /\ [](proc.bodyRuns <= 1)
    /\ [](proc.isShuttingDown <=> proc.bodyRuns = 1)
    /\ [][/\ (proc.phase \in {"listening", "closing"}
                /\ proc'.signals > proc.signals) =>
               proc'.isShuttingDown /\ proc'.bodyRuns = 1
          /\ (proc'.by = "close" /\ proc.by = "") =>
               ~proc.dbOpen /\ proc'.exit = <<0>>
          /\ (proc.isShuttingDown /\ proc.phase # "exited"
                /\ proc'.phase = "exited") =>
               \/ proc'.by = "close" /\ proc'.exit = <<0>>
               \/ proc'.by = "timeout" /\ proc'.exit = <<1>>]_vars
    /\ (proc.isShuttingDown ~> proc.phase = "exited")

\* C26 witness: two signals, one run of the body, and the exit with 0 from
\* the callback of server.close.
C26_Witness ==
    /\ proc.phase = "exited" /\ proc.by = "close" /\ proc.exit = <<0>>
    /\ proc.signals = 2 /\ proc.bodyRuns = 1

\* C27: the page is never left by the tick of an interval that was started
\* before a cancel (the cancel button or Escape), however many times the
\* video ended before it; and without any cancel the tick that leaves the
\* page is the fifth after 'ended'.
C27_CancelStopsAutoplay ==
    /\ [](client.navigatedBy # <<>> =>
            \/ client.navigatedBy[1] = 0
            \/ client.navigatedBy[1] > client.cancelledUpTo)
    /\ [][(/\ client.navigatedBy = <<>> /\ client'.navigatedBy # <<>>
           /\ client'.navigatedBy # <<0>>
           /\ client.cancelledUpTo = 0) =>
             client'.ticks = AUTOPLAY_COUNTDOWN]_vars

====
